---- MODULE Spec2Model ----
(***************************************************************************)
(* The client-side file-translation workflow of Transverse (src/script.js): *)
(* file upload, page selection, translation submission and their XHR        *)
(* callbacks, as one state machine over the module-level variables of the   *)
(* script and the DOM state its handlers read.                              *)
(*                                                                          *)
(* Text is a sequence of one-character strings, so that split, trim and     *)
(* parseInt are computed character by character as JavaScript does.         *)
(***************************************************************************)
EXTENDS Integers, Sequences, FiniteSets, TLC

(***************************************************************************)
(* Bounds of the model.                                                     *)
(***************************************************************************)
\* requests (uploads and file translations) sent in one behaviour
MaxRequests == 3
\* comma-separated tokens typed into the page field in SpecParse
MaxTokens == 3
\* largest file_info.pages of the file shown in SpecParse
ParseMaxPages == 10

\* the largest document of SpecEstimate
MaxEstimatePages == 40

(***************************************************************************)
(* JavaScript string functions used by parsePageInput.                      *)
(***************************************************************************)
WhiteSpace == {" "}

Digits == {"0", "1", "2", "3", "4", "5", "6", "7", "8", "9"}

DigitVal(c) ==
    CASE c = "0" -> 0 [] c = "1" -> 1 [] c = "2" -> 2 [] c = "3" -> 3
      [] c = "4" -> 4 [] c = "5" -> 5 [] c = "6" -> 6 [] c = "7" -> 7
      [] c = "8" -> 8 [] c = "9" -> 9

RECURSIVE TrimStart(_)
TrimStart(s) ==
    IF s # <<>> /\ Head(s) \in WhiteSpace THEN TrimStart(Tail(s)) ELSE s

RECURSIVE TrimEnd(_)
TrimEnd(s) ==
    IF s # <<>> /\ s[Len(s)] \in WhiteSpace
    THEN TrimEnd(SubSeq(s, 1, Len(s) - 1))
    ELSE s

\* String.prototype.trim
Trim(s) == TrimEnd(TrimStart(s))

\* String.prototype.includes, for a one-character argument
Includes(s, c) == \E i \in DOMAIN s : s[i] = c

\* String.prototype.split on a one-character separator: never an empty array
RECURSIVE Split(_, _)
Split(s, sep) ==
    IF s = <<>> THEN << <<>> >>
    ELSE LET rest == Split(Tail(s), sep)
         IN  IF Head(s) = sep
             THEN << <<>> >> \o rest
             ELSE << <<Head(s)>> \o Head(rest) >> \o Tail(rest)

\* the longest prefix of s made of decimal digits
RECURSIVE DigitPrefix(_)
DigitPrefix(s) ==
    IF s # <<>> /\ Head(s) \in Digits
    THEN <<Head(s)>> \o DigitPrefix(Tail(s))
    ELSE <<>>

RECURSIVE DecimalValue(_)
DecimalValue(ds) ==
    IF ds = <<>> THEN 0
    ELSE 10 * DecimalValue(SubSeq(ds, 1, Len(ds) - 1)) + DigitVal(ds[Len(ds)])

\* parseInt(s) without a radix: leading white space is skipped, one sign is
\* read, then the longest run of decimal digits; what follows is ignored.
\* The result is <<k>> for the number k and <<>> for NaN.  (The alphabet of
\* the model holds no "x", so the 0x prefix of parseInt never applies.)
ParseInt(s) ==
    LET t == TrimStart(s)
        neg == t # <<>> /\ Head(t) = "-"
        u == IF t # <<>> /\ Head(t) \in {"+", "-"} THEN Tail(t) ELSE t
        ds == DigitPrefix(u)
    IN  IF ds = <<>> THEN <<>>
        ELSE IF neg THEN <<0 - DecimalValue(ds)>> ELSE <<DecimalValue(ds)>>

\* Array.prototype.includes on an array of numbers
InArray(arr, x) == \E i \in DOMAIN arr : arr[i] = x

\* Array.prototype.sort((a, b) => a - b): insertion into ascending order
RECURSIVE InsertAsc(_, _)
InsertAsc(sorted, x) ==
    IF sorted = <<>> THEN <<x>>
    ELSE IF x < Head(sorted) THEN <<x>> \o sorted
    ELSE <<Head(sorted)>> \o InsertAsc(Tail(sorted), x)

RECURSIVE SortAsc(_)
SortAsc(arr) ==
    IF arr = <<>> THEN <<>>
    ELSE InsertAsc(SortAsc(SubSeq(arr, 1, Len(arr) - 1)), arr[Len(arr)])

(***************************************************************************)
(* Numbers as text, and the time estimate.  Seconds are counted in halves,  *)
(* so that 4.5 s per page stays an integer.                                 *)
(***************************************************************************)
DigitChar(d) == <<"0", "1", "2", "3", "4", "5", "6", "7", "8", "9">>[d + 1]

\* String(n) for a number n >= 0
RECURSIVE NumberToString(_)
NumberToString(n) ==
    IF n < 10 THEN <<DigitChar(n)>>
    ELSE NumberToString(n \div 10) \o <<DigitChar(n % 10)>>

\* avgSecondsPerPage = 4.5, in half seconds
HalfSecondsPerPage == 9

\* faulty variant of MathRound: the half is rounded down
MathRoundDown(halves) == halves \div 2

\* Math.round(x) for x = halves / 2 >= 0: a half is rounded up
MathRound(halves) == (halves + 1) \div 2

\* the text updateTimeEstimate writes to #timeEstimate for a selection of
\* `count` pages
EstimateText(count) ==
    IF count = 0 THEN <<"-", "-">>
    ELSE LET totalSeconds == count * HalfSecondsPerPage
         IN  IF totalSeconds < 120
             THEN NumberToString(MathRound(totalSeconds)) \o <<"s">>
             ELSE LET minutes == totalSeconds \div 120
                      seconds == MathRound(totalSeconds % 120)
                  IN  NumberToString(minutes) \o <<"m", " ">>
                        \o NumberToString(seconds) \o <<"s">>

(***************************************************************************)
(* parsePageInput: the pages collected from the text, before filtering.     *)
(***************************************************************************)
\* faulty variant of PushRange: the loop stops before end (i < end)
RECURSIVE PushRangeExclusive(_, _, _)
PushRangeExclusive(acc, i, end) ==
    IF i >= end THEN acc
    ELSE PushRangeExclusive(IF \E k \in DOMAIN acc : acc[k] = i THEN acc
                            ELSE Append(acc, i), i + 1, end)

\* for (let i = start; i <= end; i++) if (!includes(i)) push(i)
RECURSIVE PushRange(_, _, _)
PushRange(acc, i, end) ==
    IF i > end THEN acc
    ELSE PushRange(IF InArray(acc, i) THEN acc ELSE Append(acc, i), i + 1, end)

\* the body of parts.forEach: what one comma-separated part adds to the array
CollectPart(acc, part) ==
    LET trimmed == Trim(part)
    IN  IF Includes(trimmed, "-")
        THEN LET rangeParts == Split(trimmed, "-")
             IN  IF Len(rangeParts) = 2
                 THEN LET start == ParseInt(Trim(rangeParts[1]))
                          end == ParseInt(Trim(rangeParts[2]))
                      IN  IF start # <<>> /\ end # <<>> /\ start[1] <= end[1]
                          THEN PushRange(acc, start[1], end[1])
                          ELSE acc
                 ELSE acc
        ELSE LET pageNum == ParseInt(trimmed)
             IN  IF pageNum # <<>> /\ ~InArray(acc, pageNum[1])
                 THEN Append(acc, pageNum[1])
                 ELSE acc

RECURSIVE CollectParts(_, _)
CollectParts(acc, parts) ==
    IF parts = <<>> THEN acc
    ELSE CollectParts(CollectPart(acc, Head(parts)), Tail(parts))

NewSelectedPages(input) == CollectParts(<<>>, Split(input, ","))

\* newSelectedPages.filter(page >= 1 && page <= maxPages).sort(...)
FilterAndSort(pages, maxPages) ==
    SortAsc(SelectSeq(pages, LAMBDA page : page >= 1 /\ page <= maxPages))

(***************************************************************************)
(* The session state: the module-level variables of script.js, the DOM      *)
(* state the handlers read and write, and the requests and timers pending   *)
(* in the browser.                                                          *)
(***************************************************************************)
VARIABLES
    originalUploadedFile,      \* let originalUploadedFile
    currentFileInfo,           \* let currentFileInfo
    currentFileData,           \* let currentFileData
    selectedPages,             \* let selectedPages
    translatedPdfDownloadUrl,  \* let translatedPdfDownloadUrl
    fileInputFile,             \* fileInput.files[0]
    pageInput,                 \* value of #selectedPagesInput
    pageIcons,                 \* number of .page-icon elements in the document
    controlsBound,             \* setupPageControls has attached the listeners
    translateLoading,          \* #translateFileBtn has class "loading"
    outputShown,               \* #fileTranslationOutput is displayed
    notified,                  \* the showNotification calls of the latest handler
    uploadXhrs,                \* the XMLHttpRequests of uploadFileToServer
    translateXhrs,             \* the XMLHttpRequests of translateFileContent
    showTimers,                \* pending setTimeout(..., 500) callbacks
    linkClicked,               \* href of the link the latest handler clicked
    timeEstimate,              \* text of #timeEstimate
    uploadProgress,            \* width of #uploadProgressFill, in percent
    inputText,                 \* #inputText: value and disabled
    outputText,                \* value of #outputText
    sourceLanguage,            \* value of #sourceLanguage
    targetLanguage,            \* value of #targetLanguage
    translateBtn,              \* #translateBtn: disabled and class "loading"
    copyBtn,                   \* #copyBtn: disabled
    fetches                    \* the fetch calls of performTranslation

vars ==
    << originalUploadedFile, currentFileInfo, currentFileData, selectedPages,
       translatedPdfDownloadUrl, fileInputFile, pageInput, pageIcons,
       controlsBound, translateLoading, outputShown,
       notified, uploadXhrs, translateXhrs, showTimers, linkClicked,
       timeEstimate,
       uploadProgress,
       inputText, outputText, sourceLanguage, targetLanguage, translateBtn,
       copyBtn, fetches >>

\* the state of the text translator
textVars ==
    << inputText, outputText, sourceLanguage, targetLanguage, translateBtn,
       copyBtn, fetches >>

\* the state of the file translator, the notifications apart
fileVars ==
    << originalUploadedFile, currentFileInfo, currentFileData, selectedPages,
       translatedPdfDownloadUrl, fileInputFile, pageInput, pageIcons,
       controlsBound, translateLoading, outputShown, uploadXhrs,
       translateXhrs, showTimers, linkClicked, timeEstimate, uploadProgress >>

\* JavaScript null
Null == [null |-> TRUE]

\* the files the user uploads: a two-page document picked in
\* #fileInput, an image that is dropped, and a dropped executable
DocFile == [name |-> "a.pdf", type |-> "application/pdf"]

ImageFile == [name |-> "b.png", type |-> "image/png"]

ExeFile == [name |-> "c.exe", type |-> "application/x-msdownload"]

\* the uploads of Next: the file and whether it was picked in #fileInput
\* (change event) or dropped on the document (drop event)
UserUploads ==
    { [file |-> DocFile, viaInput |-> TRUE],
      [file |-> ImageFile, viaInput |-> FALSE],
      [file |-> ExeFile, viaInput |-> FALSE] }

allowedTypes ==
    { "text/plain", "application/pdf", "application/vnd.ms-xpsdocument",
      "application/oxps", "application/epub+zip",
      "application/x-mobipocket-ebook", "application/x-fictionbook+xml",
      "text/xml", "application/vnd.comicbook+zip", "application/zip",
      "image/svg+xml", "image/jpeg", "image/png", "image/bmp", "image/gif",
      "image/tiff", "image/x-portable-anymap", "image/x-portable-graymap",
      "image/x-portable-bitmap", "image/x-portable-pixmap",
      "image/x-portable-arbitrarymap", "image/vnd.ms-photo", "image/jxr",
      "image/jp2", "image/jpx", "image/vnd.adobe.photoshop",
      "application/octet-stream" }

\* faulty variant of TypeAllowed: only the presence of a content type is checked
TypeAllowedAnyType(file) == file.type # ""

\* allowedTypes.includes(file.type)
TypeAllowed(file) == file.type \in allowedTypes

\* faulty variant of Notify: the message is shown twice
NotifyTwice(type, message) ==
    << [type |-> type, message |-> message],
       [type |-> type, message |-> message] >>

\* showNotification(message, type), as the one call of a handler
Notify(type, message) == << [type |-> type, message |-> message] >>

\* a handler that does not call showNotification
Silent == <<>>

\* the absent download_url of a response (JavaScript undefined)
Undefined == <<"undefined">>

\* the text translator when the script is loaded: empty fields, automatic
\* detection of the source language, nothing in flight
TextIdle(copyDisabled) ==
    /\ inputText = [value |-> <<>>, disabled |-> FALSE]
    /\ outputText = <<>>
    /\ sourceLanguage = "auto"
    /\ targetLanguage = "es"
    /\ translateBtn = [disabled |-> FALSE, loading |-> FALSE]
    /\ copyBtn = [disabled |-> copyDisabled]
    /\ fetches = <<>>

Init ==
    /\ originalUploadedFile = Null
    /\ currentFileInfo = Null
    /\ currentFileData = Null
    /\ selectedPages = <<>>
    /\ translatedPdfDownloadUrl = <<>>
    /\ fileInputFile = Null
    /\ pageInput = <<>>
    /\ pageIcons = 0
    /\ controlsBound = FALSE
    /\ translateLoading = FALSE
    /\ outputShown = FALSE
    /\ notified = Silent
    /\ uploadXhrs = <<>>
    /\ translateXhrs = <<>>
    /\ showTimers = <<>>
    /\ linkClicked = <<>>
    /\ timeEstimate = <<>>
    /\ uploadProgress = 0
    /\ TextIdle(TRUE)

(***************************************************************************)
(* XMLHttpRequest: after send() exactly one of load, error and timeout is   *)
(* dispatched, and then the request is over.  A request in flight holds     *)
(* what was sent; every request counts the terminal callbacks that ran.     *)
(***************************************************************************)
\* new XMLHttpRequest(), xhr.timeout = timeout, xhr.send(formData)
SentXhr(formData, timeout) ==
    [state |-> "sent", formData |-> formData, timeout |-> timeout,
     callbacks |-> 0, loaded |-> 0]

InFlight(xhrs) == {i \in DOMAIN xhrs : xhrs[i].state = "sent"}

\* faulty variant of Settle: the callback sends the request again
SettleAndResend(xhrs, i) ==
    [xhrs EXCEPT ![i] = [@ EXCEPT !.callbacks = @ + 1]]

\* faulty variant of Settle: the callback is registered twice and runs twice
SettleTwice(xhrs, i) ==
    [xhrs EXCEPT ![i] = [state |-> "done", callbacks |-> @.callbacks + 2]]

\* a terminal callback of request i has run; none of them calls send again
Settle(xhrs, i) ==
    [xhrs EXCEPT ![i] = [state |-> "done", callbacks |-> @.callbacks + 1]]

(***************************************************************************)
(* Upload.                                                                  *)
(***************************************************************************)
\* xhr.timeout = 300000 of uploadFileToServer
UploadTimeoutMs == 300000

\* faulty variant of handleFileUpload: the file is stored after the
\* allow-list check, so a rejected file is not retained
handleFileUploadStoresAccepted(file, viaInput) ==
    /\ Len(uploadXhrs) + Len(translateXhrs) < MaxRequests
    /\ viaInput => fileInputFile # file
    /\ fileInputFile' = IF viaInput THEN file ELSE fileInputFile
    /\ IF ~TypeAllowed(file)
       THEN /\ notified' = Notify("error", "Unsupported file type")
            /\ UNCHANGED << uploadXhrs, originalUploadedFile >>
       ELSE /\ uploadXhrs' =
                 Append(uploadXhrs, SentXhr([file |-> file], UploadTimeoutMs))
            /\ originalUploadedFile' = file
            /\ notified' = Silent
    /\ UNCHANGED << currentFileInfo, currentFileData, selectedPages,
                    translatedPdfDownloadUrl, pageInput, pageIcons,
                    controlsBound, translateLoading, outputShown,
                    translateXhrs, showTimers >>
    /\ linkClicked' = <<>>
    /\ UNCHANGED timeEstimate
    /\ UNCHANGED uploadProgress
    /\ UNCHANGED textVars

\* handleFileUpload(file), with uploadFileToServer(file) up to xhr.send.
\* The change event of #fileInput fires when the chosen file changes.
handleFileUpload(file, viaInput) ==
    /\ Len(uploadXhrs) + Len(translateXhrs) < MaxRequests
    /\ viaInput => fileInputFile # file
    /\ originalUploadedFile' = file
    /\ fileInputFile' = IF viaInput THEN file ELSE fileInputFile
    /\ IF ~TypeAllowed(file)
       THEN /\ notified' = Notify("error", "Unsupported file type")
            /\ UNCHANGED uploadXhrs
       ELSE /\ uploadXhrs' =
                 Append(uploadXhrs, SentXhr([file |-> file], UploadTimeoutMs))
            /\ notified' = Silent
    /\ UNCHANGED << currentFileInfo, currentFileData, selectedPages,
                    translatedPdfDownloadUrl, pageInput, pageIcons,
                    controlsBound, translateLoading, outputShown,
                    translateXhrs, showTimers >>
    /\ linkClicked' = <<>>
    /\ UNCHANGED timeEstimate
    /\ UNCHANGED uploadProgress
    /\ UNCHANGED textVars

\* event.total of the progress events of an upload: the size of the body
UploadTotal == 2

\* (event.loaded / event.total) * 100
PercentComplete(loaded, total) == (loaded * 100) \div total

\* progressFill.style.width = '95%' of xhr.onload
ProcessingPercent == 95

\* xhr.upload.onprogress of uploadFileToServer: the browser reports the
\* bytes sent so far, which never decrease and never exceed the total.  The
\* request keeps event.loaded of its latest event of computable length; an
\* event without one is ignored by the handler.
uploadOnprogress(i, loaded, lengthComputable) ==
    /\ i \in InFlight(uploadXhrs)
    /\ loaded \in uploadXhrs[i].loaded..UploadTotal
    /\ IF lengthComputable
       THEN /\ uploadXhrs' = [uploadXhrs EXCEPT ![i].loaded = loaded]
            /\ uploadProgress' = PercentComplete(loaded, UploadTotal)
       ELSE UNCHANGED << uploadXhrs, uploadProgress >>
    /\ notified' = Silent
    /\ linkClicked' = <<>>
    /\ UNCHANGED << originalUploadedFile, currentFileInfo, currentFileData,
                    selectedPages, translatedPdfDownloadUrl, fileInputFile,
                    pageInput, pageIcons, controlsBound, translateLoading,
                    outputShown, translateXhrs, showTimers, timeEstimate >>
    /\ UNCHANGED textVars

\* file_info of the upload response for a file: the server reports the two
\* pages of the document, and no page count (0) for the image
FileInfoOf(file) ==
    [file |-> file.name, pages |-> IF file = DocFile THEN 2 ELSE 0]

\* the responses of the upload endpoint: HTTP status, whether the body
\* parses to a JSON object, and the fields of the object
UploadResponses ==
    { [status |-> 200, json |-> TRUE, success |-> TRUE, extraction_error |-> w] :
        w \in BOOLEAN }
    \cup { [status |-> 200, json |-> TRUE, success |-> FALSE],
           [status |-> 200, json |-> FALSE],
           [status |-> 500] }

\* faulty variant of UploadOk: an extraction_error fails the upload
UploadOkWithoutWarning(response) ==
    /\ response.status = 200
    /\ response.json
    /\ response.success
    /\ ~response.extraction_error

\* xhr.status === 200, the body parses to an object and data.success
UploadOk(response) ==
    response.status = 200 /\ response.json /\ response.success

\* xhr.onload of uploadFileToServer
uploadOnload(i, response) ==
    /\ i \in InFlight(uploadXhrs)
    /\ uploadXhrs' = Settle(uploadXhrs, i)
    /\ IF UploadOk(response)
       THEN LET data == [file_info |-> FileInfoOf(uploadXhrs[i].formData.file)]
            IN  /\ currentFileInfo' = data.file_info
                /\ showTimers' = Append(showTimers, data)
                /\ notified' =
                     IF response.extraction_error
                     THEN Notify("warning", "Warning: extraction_error")
                     ELSE Silent
       ELSE /\ notified' =
                 IF response.status # 200
                 THEN Notify("error", "Upload failed: HTTP status")
                 ELSE IF ~response.json
                 THEN Notify("error", "Upload failed: Invalid response format")
                 ELSE Notify("error", "Upload failed: data.error")
            /\ UNCHANGED << currentFileInfo, showTimers >>
    /\ UNCHANGED << originalUploadedFile, currentFileData, selectedPages,
                    translatedPdfDownloadUrl, fileInputFile, pageInput,
                    pageIcons, controlsBound, translateLoading, outputShown,
                    translateXhrs >>
    /\ linkClicked' = <<>>
    /\ UNCHANGED timeEstimate
    /\ uploadProgress' =
         IF UploadOk(response)
         THEN ProcessingPercent
         ELSE uploadProgress
    /\ UNCHANGED textVars

\* faulty variant of uploadOnerror: the File Descriptor is dropped
uploadOnerrorDropsInfo(i) ==
    /\ i \in InFlight(uploadXhrs)
    /\ uploadXhrs' = Settle(uploadXhrs, i)
    /\ notified' = Notify("error", "Upload failed: Network error")
    /\ currentFileInfo' = Null
    /\ UNCHANGED << originalUploadedFile, currentFileData,
                    selectedPages, translatedPdfDownloadUrl, fileInputFile,
                    pageInput, pageIcons, controlsBound, translateLoading,
                    outputShown, translateXhrs, showTimers >>
    /\ linkClicked' = <<>>
    /\ UNCHANGED timeEstimate
    /\ UNCHANGED uploadProgress
    /\ UNCHANGED textVars

\* xhr.onerror of uploadFileToServer
uploadOnerror(i) ==
    /\ i \in InFlight(uploadXhrs)
    /\ uploadXhrs' = Settle(uploadXhrs, i)
    /\ notified' = Notify("error", "Upload failed: Network error")
    /\ UNCHANGED << originalUploadedFile, currentFileInfo, currentFileData,
                    selectedPages, translatedPdfDownloadUrl, fileInputFile,
                    pageInput, pageIcons, controlsBound, translateLoading,
                    outputShown, translateXhrs, showTimers >>
    /\ linkClicked' = <<>>
    /\ UNCHANGED timeEstimate
    /\ UNCHANGED uploadProgress
    /\ UNCHANGED textVars

\* xhr.ontimeout of uploadFileToServer
uploadOntimeout(i) ==
    /\ i \in InFlight(uploadXhrs)
    /\ uploadXhrs[i].timeout > 0
    /\ uploadXhrs' = Settle(uploadXhrs, i)
    /\ notified' = Notify("error", "Upload failed: Timeout")
    /\ UNCHANGED << originalUploadedFile, currentFileInfo, currentFileData,
                    selectedPages, translatedPdfDownloadUrl, fileInputFile,
                    pageInput, pageIcons, controlsBound, translateLoading,
                    outputShown, translateXhrs, showTimers >>
    /\ linkClicked' = <<>>
    /\ UNCHANGED timeEstimate
    /\ UNCHANGED uploadProgress
    /\ UNCHANGED textVars

(***************************************************************************)
(* Page selection.                                                          *)
(***************************************************************************)
\* faulty variant of TotalPages: the count of the response is used as it is
TotalPagesAsReported(data) == data.file_info.pages

\* data.file_info.pages || 1
TotalPages(data) == IF data.file_info.pages = 0 THEN 1 ELSE data.file_info.pages

\* the setTimeout callback of xhr.onload: hideFileUploadLoading() and
\* showFileTranslationResults(data), with generatePagePreviews and
\* setupPageControls; timers of equal delay fire in the order they were set
showFileTranslationResults ==
    /\ showTimers # <<>>
    /\ LET data == Head(showTimers)
       IN  /\ currentFileData' = data
           /\ selectedPages' = <<>>
           /\ pageIcons' = TotalPages(data)
    /\ showTimers' = Tail(showTimers)
    /\ controlsBound' = TRUE
    /\ notified' = Silent
    /\ UNCHANGED << originalUploadedFile, currentFileInfo,
                    translatedPdfDownloadUrl, fileInputFile, pageInput,
                    translateLoading, outputShown, uploadXhrs,
                    translateXhrs >>
    /\ linkClicked' = <<>>
    /\ timeEstimate' = EstimateText(Len(selectedPages'))
    /\ UNCHANGED uploadProgress
    /\ UNCHANGED textVars

\* selectedPages.splice(index, 1)
RemoveAt(arr, index) ==
    SubSeq(arr, 1, index - 1) \o SubSeq(arr, index + 1, Len(arr))

\* selectedPages.indexOf(pageNumber), 1-based; 0 when absent
IndexOf(arr, x) ==
    IF InArray(arr, x)
    THEN CHOOSE i \in DOMAIN arr :
            arr[i] = x /\ \A j \in DOMAIN arr : arr[j] = x => i <= j
    ELSE 0

\* faulty variant of Toggled: the sort after the push is missing
ToggledUnsorted(pages, pageNumber) ==
    LET index == IndexOf(pages, pageNumber)
    IN  IF index > 0 THEN RemoveAt(pages, index) ELSE Append(pages, pageNumber)

\* faulty variant of Toggled: a page that is selected is not removed
ToggledNoRemove(pages, pageNumber) ==
    SortAsc(IF InArray(pages, pageNumber) THEN pages
            ELSE Append(pages, pageNumber))

\* the selection togglePageSelection leaves
Toggled(pages, pageNumber) ==
    LET index == IndexOf(pages, pageNumber)
    IN  SortAsc(IF index > 0 THEN RemoveAt(pages, index)
                ELSE Append(pages, pageNumber))

\* togglePageSelection(pageNumber)
togglePageSelection(pageNumber) ==
    /\ selectedPages' = Toggled(selectedPages, pageNumber)
    /\ notified' = Silent
    /\ linkClicked' = <<>>
    /\ UNCHANGED << originalUploadedFile, currentFileInfo, currentFileData,
                    translatedPdfDownloadUrl, fileInputFile, pageInput,
                    pageIcons, controlsBound, translateLoading,
                    outputShown, uploadXhrs, translateXhrs, showTimers >>
    /\ timeEstimate' = EstimateText(Len(selectedPages'))
    /\ UNCHANGED uploadProgress
    /\ UNCHANGED textVars

\* handlePagePreviewClick(event): a click on the .page-icon whose data-page
\* is pageNumber; the icons are those of generatePagePreviews
handlePagePreviewClick(pageNumber) ==
    /\ controlsBound
    /\ pageNumber \in 1..pageIcons
    /\ togglePageSelection(pageNumber)

\* faulty variant of IconPages: the last icon is missed
IconPagesButLast(n) == [i \in 1..(n - 1) |-> i]

\* the page numbers of the .page-icon elements, in document order
IconPages(n) == [i \in 1..n |-> i]

\* selectAllPages
selectAllPages ==
    /\ controlsBound
    /\ selectedPages' = SortAsc(IconPages(pageIcons))
    /\ notified' = Silent
    /\ UNCHANGED << originalUploadedFile, currentFileInfo, currentFileData,
                    translatedPdfDownloadUrl, fileInputFile, pageInput,
                    pageIcons, controlsBound, translateLoading,
                    outputShown,                     uploadXhrs, translateXhrs, showTimers >>
    /\ linkClicked' = <<>>
    /\ timeEstimate' = EstimateText(Len(selectedPages'))
    /\ UNCHANGED uploadProgress
    /\ UNCHANGED textVars

\* deselectAllPages
deselectAllPages ==
    /\ controlsBound
    /\ selectedPages' = <<>>
    /\ notified' = Silent
    /\ UNCHANGED << originalUploadedFile, currentFileInfo, currentFileData,
                    translatedPdfDownloadUrl, fileInputFile, pageInput,
                    pageIcons, controlsBound, translateLoading,
                    outputShown,                     uploadXhrs, translateXhrs, showTimers >>
    /\ linkClicked' = <<>>
    /\ timeEstimate' = EstimateText(Len(selectedPages'))
    /\ UNCHANGED uploadProgress
    /\ UNCHANGED textVars

\* currentFileData ? (currentFileData.file_info.pages || 1) : 1000
NoFileMaxPages == 1000

MaxPagesOf(data) == IF data # Null THEN TotalPages(data) ELSE NoFileMaxPages

\* faulty variant of ParsedSelection: a blank text returns without
\* deselecting
ParsedSelectionBlankKeeps(value, data) ==
    LET input == Trim(value)
    IN  IF input = <<>> THEN selectedPages
        ELSE FilterAndSort(NewSelectedPages(input), MaxPagesOf(data))

\* the selection parsePageInput leaves for the text of the field
ParsedSelection(value, data) ==
    LET input == Trim(value)
    IN  IF input = <<>> THEN <<>>
        ELSE FilterAndSort(NewSelectedPages(input), MaxPagesOf(data))

\* parsePageInput(event): the input event of #selectedPagesInput, whose
\* value is now `value`
parsePageInput(value) ==
    /\ controlsBound
    /\ pageInput' = value
    /\ selectedPages' = ParsedSelection(value, currentFileData)
    /\ notified' = Silent
    /\ UNCHANGED << originalUploadedFile, currentFileInfo, currentFileData,
                    translatedPdfDownloadUrl, fileInputFile, pageIcons,
                    controlsBound, translateLoading, outputShown,
                    uploadXhrs, translateXhrs, showTimers >>
    /\ linkClicked' = <<>>
    /\ timeEstimate' = EstimateText(Len(selectedPages'))
    /\ UNCHANGED uploadProgress
    /\ UNCHANGED textVars

\* faulty variant of hideFileTranslation: the retained file is not cleared
hideFileTranslationKeepsFile ==
    /\ selectedPages' = <<>>
    /\ currentFileInfo' = Null
    /\ translatedPdfDownloadUrl' = <<>>
    /\ currentFileData' = Null
    /\ outputShown' = FALSE
    /\ notified' = Silent
    /\ linkClicked' = <<>>
    /\ UNCHANGED << originalUploadedFile, fileInputFile, pageInput, pageIcons,
                    controlsBound, translateLoading, uploadXhrs,
                    translateXhrs, showTimers >>
    /\ UNCHANGED timeEstimate
    /\ UNCHANGED uploadProgress
    /\ UNCHANGED textVars

\* hideFileTranslation
hideFileTranslation ==
    /\ selectedPages' = <<>>
    /\ currentFileInfo' = Null
    /\ translatedPdfDownloadUrl' = <<>>
    /\ currentFileData' = Null
    /\ originalUploadedFile' = Null
    /\ outputShown' = FALSE
    /\ notified' = Silent
    /\ UNCHANGED << fileInputFile, pageInput, pageIcons, controlsBound,
                    translateLoading, uploadXhrs, translateXhrs, showTimers >>
    /\ linkClicked' = <<>>
    /\ UNCHANGED timeEstimate
    /\ UNCHANGED uploadProgress
    /\ UNCHANGED textVars

(***************************************************************************)
(* Translation.                                                             *)
(***************************************************************************)
\* selectedPages.join(',')
RECURSIVE Join(_)
Join(pages) ==
    IF pages = <<>> THEN <<>>
    ELSE IF Len(pages) = 1 THEN NumberToString(pages[1])
    ELSE NumberToString(pages[1]) \o <<",">> \o Join(Tail(pages))

\* the fields of the multipart request; pages is <<>> when the field is not
\* appended and <<text>> when it is
TranslateFormData(file, pages, fileInfo) ==
    [ file |-> file,
      service_name |-> "gemini",
      pages |-> IF Len(pages) > 0 /\ Len(pages) # fileInfo.pages
                THEN <<Join(pages)>>
                ELSE <<>> ]

\* xhr.timeout = 300000 of translateFileContent
TranslateTimeoutMs == 300000

\* faulty variant of NoPagesSelected: the comparison never holds
NoPagesSelectedNever(pages) == Len(pages) < 0

\* selectedPages.length === 0
NoPagesSelected(pages) == Len(pages) = 0

\* faulty variant of FileMissing: the check after the fallback is dropped
FileMissingNever(file) == FALSE

\* !originalUploadedFile
FileMissing(file) == file = Null

\* originalUploadedFile after the fallback to the file of #fileInput
PayloadOrFallback ==
    IF originalUploadedFile # Null THEN originalUploadedFile ELSE fileInputFile

\* translateFileContent(), up to xhr.send.  With currentFileInfo null the
\* read of currentFileInfo.pages throws a TypeError, which ends the handler
\* after the loading class was added and before a request exists.
translateFileContent ==
    /\ Len(uploadXhrs) + Len(translateXhrs) < MaxRequests
    /\ IF currentFileData = Null
       THEN /\ notified' = Notify("error", "No file data available")
            /\ UNCHANGED << originalUploadedFile, translateLoading, translateXhrs >>
       ELSE IF NoPagesSelected(selectedPages)
       THEN /\ notified' =
                 Notify("error", "Please select at least one page to translate")
            /\ UNCHANGED << originalUploadedFile, translateLoading, translateXhrs >>
       ELSE /\ originalUploadedFile' = PayloadOrFallback
            /\ IF FileMissing(PayloadOrFallback)
               THEN /\ notified' = Notify("error", "Please upload a file first")
                    /\ translateLoading' = FALSE
                    /\ UNCHANGED translateXhrs
               ELSE IF currentFileInfo = Null
               THEN /\ translateLoading' = TRUE
                    /\ notified' = Silent
                    /\ UNCHANGED translateXhrs
               ELSE /\ translateLoading' = TRUE
                    /\ notified' = Notify("success", "Starting file translation")
                    /\ translateXhrs' =
                         Append(translateXhrs,
                                SentXhr(TranslateFormData(PayloadOrFallback,
                                                          selectedPages,
                                                          currentFileInfo),
                                        TranslateTimeoutMs))
    /\ UNCHANGED << currentFileInfo, currentFileData, selectedPages,
                    translatedPdfDownloadUrl, fileInputFile, pageInput,
                    pageIcons, controlsBound, outputShown,
                    uploadXhrs, showTimers >>
    /\ linkClicked' = <<>>
    /\ UNCHANGED timeEstimate
    /\ UNCHANGED uploadProgress
    /\ UNCHANGED textVars

\* the name of the artifact of the j-th translation request
JobTag(j) == <<"job1", "job2", "job3", "job4">>[j]

\* the responses the translate endpoint can give to request j: HTTP status,
\* what JSON.parse makes of the body ("object", "null" for a falsy value,
\* "invalid" for a syntax error) and the fields of the object
\* (translated_pages = 0 stands for an absent field)
TranslateResponses(j) ==
    { [status |-> 200, body |-> "object", success |-> TRUE,
       download_url |-> u, translated_pages |-> t] :
         u \in {Undefined, <<"/media/", JobTag(j)>>}, t \in {0, 7} }
    \cup { [status |-> 200, body |-> "object", success |-> FALSE],
           [status |-> 200, body |-> "null"],
           [status |-> 200, body |-> "invalid"],
           [status |-> 500] }

\* data.translated_pages || selectedPages.length
ReportedPages(response, pages) ==
    IF response.translated_pages # 0 THEN response.translated_pages ELSE Len(pages)

\* xhr.onload of translateFileContent
translateOnload(j, response) ==
    /\ j \in InFlight(translateXhrs)
    /\ translateXhrs' = Settle(translateXhrs, j)
    /\ translateLoading' = FALSE
    /\ IF response.status = 200 /\ response.body = "object" /\ response.success
       THEN /\ translatedPdfDownloadUrl' = response.download_url
            /\ outputShown' = TRUE
            /\ notified' =
                 << [type |-> "success", message |-> "Successfully translated",
                     pages |-> ReportedPages(response, selectedPages)] >>
       ELSE /\ notified' =
                 IF response.status # 200
                 THEN Notify("error", "Translation failed: HTTP status")
                 ELSE IF response.body = "invalid"
                 THEN Notify("error", "Translation failed: Invalid response format")
                 ELSE IF response.body = "null"
                 THEN Notify("error", "Translation failed: Empty response from server")
                 ELSE Notify("error", "Translation failed: data.error")
            /\ UNCHANGED << translatedPdfDownloadUrl, outputShown >>
    /\ UNCHANGED << originalUploadedFile, currentFileInfo, currentFileData,
                    selectedPages, fileInputFile, pageInput, pageIcons,
                    controlsBound, uploadXhrs, showTimers >>
    /\ linkClicked' = <<>>
    /\ UNCHANGED timeEstimate
    /\ UNCHANGED uploadProgress
    /\ UNCHANGED textVars

\* xhr.onerror of translateFileContent
translateOnerror(j) ==
    /\ j \in InFlight(translateXhrs)
    /\ translateXhrs' = Settle(translateXhrs, j)
    /\ translateLoading' = FALSE
    /\ notified' = Notify("error", "Translation failed: Network error")
    /\ UNCHANGED << originalUploadedFile, currentFileInfo, currentFileData,
                    selectedPages, translatedPdfDownloadUrl, fileInputFile,
                    pageInput, pageIcons, controlsBound, outputShown, uploadXhrs, showTimers >>
    /\ linkClicked' = <<>>
    /\ UNCHANGED timeEstimate
    /\ UNCHANGED uploadProgress
    /\ UNCHANGED textVars

\* xhr.ontimeout of translateFileContent
translateOntimeout(j) ==
    /\ j \in InFlight(translateXhrs)
    /\ translateXhrs[j].timeout > 0
    /\ translateXhrs' = Settle(translateXhrs, j)
    /\ translateLoading' = FALSE
    /\ notified' = Notify("error", "Translation failed: Timeout")
    /\ UNCHANGED << originalUploadedFile, currentFileInfo, currentFileData,
                    selectedPages, translatedPdfDownloadUrl, fileInputFile,
                    pageInput, pageIcons, controlsBound, outputShown, uploadXhrs, showTimers >>
    /\ linkClicked' = <<>>
    /\ UNCHANGED timeEstimate
    /\ UNCHANGED uploadProgress
    /\ UNCHANGED textVars

(***************************************************************************)
(* Download.  A URL is the sequence of its parts: a scheme ("http://" or    *)
(* "https://") when it has one, then the host and the path.                 *)
(***************************************************************************)
\* faulty variant of Falsy: undefined is taken for a reference
FalsyEmptyOnly(url) == url = <<>>

\* !translatedPdfDownloadUrl: the empty string and undefined are falsy
Falsy(url) == url = <<>> \/ url = Undefined

\* url.startsWith(prefix)
StartsWith(url, prefix) ==
    Len(url) >= Len(prefix) /\ SubSeq(url, 1, Len(prefix)) = prefix

\* 'http://127.0.0.1:8000'
BaseOrigin == <<"http://", "127.0.0.1:8000">>

\* faulty variant of WithProtocol: the origin is prefixed on every call
WithProtocolAlways(url) == BaseOrigin \o url

\* the URL after "Ensure URL has proper protocol"
WithProtocol(url) ==
    IF ~StartsWith(url, <<"http://">>) /\ ~StartsWith(url, <<"https://">>)
    THEN BaseOrigin \o url
    ELSE url

\* downloadTranslatedFile(): the click on #downloadTranslationBtn, which is
\* displayed with the translation output.  The link is created with the
\* URL of the call and clicked when the HEAD request settles either way.
downloadTranslatedFile ==
    /\ outputShown
    /\ IF Falsy(translatedPdfDownloadUrl)
       THEN /\ notified' =
                 Notify("error", "No translated file available for download")
            /\ linkClicked' = <<>>
            /\ UNCHANGED translatedPdfDownloadUrl
       ELSE IF Trim(translatedPdfDownloadUrl) = <<>>
       THEN /\ notified' =
                 Notify("error", "Invalid download URL received from server")
            /\ linkClicked' = <<>>
            /\ UNCHANGED translatedPdfDownloadUrl
       ELSE /\ translatedPdfDownloadUrl' = WithProtocol(translatedPdfDownloadUrl)
            /\ linkClicked' = WithProtocol(translatedPdfDownloadUrl)
            /\ notified' = Notify("success", "Download started!")
    /\ UNCHANGED << originalUploadedFile, currentFileInfo, currentFileData,
                    selectedPages, fileInputFile, pageInput, pageIcons,
                    controlsBound, translateLoading, outputShown,
                    uploadXhrs, translateXhrs, showTimers >>
    /\ UNCHANGED timeEstimate
    /\ UNCHANGED uploadProgress
    /\ UNCHANGED textVars

(***************************************************************************)
(* The session: every handler can run whenever its event can occur.         *)
(***************************************************************************)
\* the texts typed into the page field in Spec
PageTexts == { <<"2">> }

Next ==
    \/ \E u \in UserUploads : handleFileUpload(u.file, u.viaInput)
    \/ \E i \in DOMAIN uploadXhrs :
         \E response \in UploadResponses : uploadOnload(i, response)
    \/ \E i \in DOMAIN uploadXhrs : uploadOnerror(i)
    \/ \E i \in DOMAIN uploadXhrs : uploadOntimeout(i)
    \/ showFileTranslationResults
    \/ \E pageNumber \in 1..pageIcons : handlePagePreviewClick(pageNumber)
    \/ selectAllPages
    \/ deselectAllPages
    \/ \E value \in PageTexts : parsePageInput(value)
    \/ hideFileTranslation
    \/ translateFileContent
    \/ \E j \in DOMAIN translateXhrs :
         \E response \in TranslateResponses(j) : translateOnload(j, response)
    \/ \E j \in DOMAIN translateXhrs : translateOnerror(j)
    \/ \E j \in DOMAIN translateXhrs : translateOntimeout(j)
    \/ downloadTranslatedFile

Spec == Init /\ [][Next]_vars

(***************************************************************************)
(* SpecParse: the page field alone.  A document of n pages has been         *)
(* uploaded and its pages are shown; the user types one comma-separated     *)
(* token after another, and every edit fires the input event.               *)
(***************************************************************************)
\* the tokens typed: integers, ranges, a reversed range, tokens with a
\* numeric prefix, non-numeric tokens, a token in white space, an empty token
ParseTokens ==
    { <<"1">>, <<"3">>, <<"1", "2">>, <<" ", "2", " ">>, <<>>,
      <<"5", "-", "8">>, <<"9", "-", "1", "2">>, <<"5", "-", "3">>,
      <<"1", "-", "2", "-", "3">>, <<"a">>, <<"3", "a">>, <<"a", "-", "3">> }

\* file_info.pages of the document shown (0: the response gave no count)
ParsePageCounts == {0, 3, ParseMaxPages}

\* the text of the field after one more token is typed
ExtendText(text, token) ==
    IF text = <<>> THEN token ELSE text \o <<",">> \o token

TokensTyped(text) == IF text = <<>> THEN 0 ELSE Len(Split(text, ","))

InitParse ==
    \E n \in ParsePageCounts :
        LET info == [file |-> DocFile.name, pages |-> n]
        IN  /\ originalUploadedFile = DocFile
            /\ currentFileInfo = info
            /\ currentFileData = [file_info |-> info]
            /\ selectedPages \in {<<>>, IconPages(TotalPages([file_info |-> info]))}
            /\ translatedPdfDownloadUrl = <<>>
            /\ fileInputFile = DocFile
            /\ pageInput = <<>>
            /\ pageIcons = TotalPages([file_info |-> info])
            /\ controlsBound = TRUE
            /\ translateLoading = FALSE
            /\ outputShown = FALSE
            /\ notified = Silent
            /\ uploadXhrs = << [state |-> "done", callbacks |-> 1] >>
            /\ translateXhrs = <<>>
            /\ showTimers = <<>>
            /\ linkClicked = <<>>
            /\ timeEstimate = EstimateText(Len(selectedPages))
            /\ uploadProgress = 0
            /\ TextIdle(TRUE)

\* the texts of a field that is cleared or filled with white space
BlankTexts == { <<>>, <<" ">>, <<" ", " ">> }

NextParse ==
    \/ \E token \in ParseTokens :
         /\ TokensTyped(pageInput) < MaxTokens
         /\ parsePageInput(ExtendText(pageInput, token))
    \/ \E blank \in BlankTexts : parsePageInput(blank)

SpecParse == InitParse /\ [][NextParse]_vars

(***************************************************************************)
(* SpecSelect: the operations on the Selected Page Set of a file that is    *)
(* shown, called with every argument: togglePageSelection(pageNumber) for   *)
(* page numbers inside and outside the pages of the file, selectAllPages    *)
(* and deselectAllPages.                                                    *)
(***************************************************************************)
\* the page numbers togglePageSelection is called with
TogglePages == 0..(ParseMaxPages + 1)

\* the file has just been shown: nothing is selected
InitSelect == InitParse /\ selectedPages = <<>>

NextSelect ==
    \/ \E pageNumber \in TogglePages : togglePageSelection(pageNumber)
    \/ selectAllPages
    \/ deselectAllPages

SpecSelect == InitSelect /\ [][NextSelect]_vars

(***************************************************************************)
(* SpecEstimate: the time estimate.  A document of up to MaxEstimatePages   *)
(* pages is shown; the user selects all pages, deselects them and clicks    *)
(* the first and the last page icon.                                        *)
(***************************************************************************)
InitEstimate ==
    \E n \in 1..MaxEstimatePages :
        LET info == [file |-> DocFile.name, pages |-> n]
        IN  /\ originalUploadedFile = DocFile
            /\ currentFileInfo = info
            /\ currentFileData = [file_info |-> info]
            /\ selectedPages = <<>>
            /\ translatedPdfDownloadUrl = <<>>
            /\ fileInputFile = DocFile
            /\ pageInput = <<>>
            /\ pageIcons = n
            /\ controlsBound = TRUE
            /\ translateLoading = FALSE
            /\ outputShown = FALSE
            /\ notified = Silent
            /\ uploadXhrs = << [state |-> "done", callbacks |-> 1] >>
            /\ translateXhrs = <<>>
            /\ showTimers = <<>>
            /\ linkClicked = <<>>
            /\ timeEstimate = EstimateText(0)
            /\ uploadProgress = 0
            /\ TextIdle(TRUE)

NextEstimate ==
    \/ selectAllPages
    \/ deselectAllPages
    \/ \E pageNumber \in {1, pageIcons} : handlePagePreviewClick(pageNumber)

SpecEstimate == InitEstimate /\ [][NextEstimate]_vars

(***************************************************************************)
(* SpecUpload: uploads alone, from the call to the page selection shown.    *)
(* SpecProgress adds the progress events of the uploads.  Spec leaves them  *)
(* out: they write the progress bar alone, which no other handler reads.    *)
(***************************************************************************)
NextUpload ==
    \/ \E u \in UserUploads : handleFileUpload(u.file, u.viaInput)
    \/ \E i \in DOMAIN uploadXhrs :
         \E response \in UploadResponses : uploadOnload(i, response)
    \/ \E i \in DOMAIN uploadXhrs : uploadOnerror(i)
    \/ \E i \in DOMAIN uploadXhrs : uploadOntimeout(i)
    \/ showFileTranslationResults

SpecUpload == Init /\ [][NextUpload]_vars

\* the setTimeout callback of xhr.onload runs once its 500 ms have passed
SpecUploadLive == SpecUpload /\ WF_vars(showFileTranslationResults)

NextProgress ==
    \/ NextUpload
    \/ \E i \in DOMAIN uploadXhrs :
         \E loaded \in 0..UploadTotal, lengthComputable \in BOOLEAN :
            uploadOnprogress(i, loaded, lengthComputable)

SpecProgress == Init /\ [][NextProgress]_vars

(***************************************************************************)
(* SpecDownload: downloads of one result.  A translation of the document    *)
(* has succeeded with one of the download_url values a server can return,   *)
(* and the user clicks the download button any number of times.             *)
(***************************************************************************)
\* download_url values: paths relative to the origin, and URLs with an
\* http:// or https:// scheme on the origin or on another host
DownloadUrls ==
    LET paths == { <<path, JobTag(j)>> :
                     path \in {"/media/", "/files/", "media/"}, j \in 1..4 }
        origins == { <<scheme, host>> :
                       scheme \in {"http://", "https://"},
                       host \in {"127.0.0.1:8000", "cdn.example"} }
    IN  paths \cup { origin \o path : origin \in origins, path \in paths }

InitDownload ==
    \E url \in DownloadUrls :
        LET info == FileInfoOf(DocFile)
        IN  /\ originalUploadedFile = DocFile
            /\ currentFileInfo = info
            /\ currentFileData = [file_info |-> info]
            /\ selectedPages = <<1>>
            /\ translatedPdfDownloadUrl = url
            /\ fileInputFile = DocFile
            /\ pageInput = <<>>
            /\ pageIcons = TotalPages([file_info |-> info])
            /\ controlsBound = TRUE
            /\ translateLoading = FALSE
            /\ outputShown = TRUE
            /\ notified = Silent
            /\ uploadXhrs = << [state |-> "done", callbacks |-> 1] >>
            /\ translateXhrs = << [state |-> "done", callbacks |-> 1] >>
            /\ showTimers = <<>>
            /\ linkClicked = <<>>
            /\ timeEstimate = EstimateText(1)
            /\ uploadProgress = ProcessingPercent
            /\ TextIdle(TRUE)

NextDownload == downloadTranslatedFile

SpecDownload == InitDownload /\ [][NextDownload]_vars

(***************************************************************************)
(* Text translation.  performTranslation is an async function: it runs up  *)
(* to the await of fetch in the step of the click or of the shortcut, and   *)
(* it resumes when the fetch is fulfilled or rejected.                      *)
(***************************************************************************)
\* the number of fetch calls of a behaviour
MaxFetches == 2

\* the values of the options of #sourceLanguage and of #targetLanguage
SourceLanguages == {"auto", "en", "es"}

TargetLanguages == {"en", "es"}

\* the texts typed into #inputText
TextInputs == { <<>>, <<" ", " ">>, <<" ", "h", "i">> }

\* faulty variant of setLoadingState: the translate button stays enabled
setLoadingStateKeepsEnabled(loading, output, copy) ==
    IF loading
    THEN [ translateBtn |-> [disabled |-> FALSE, loading |-> TRUE],
           inputDisabled |-> TRUE,
           copyBtn |-> [disabled |-> TRUE] ]
    ELSE [ translateBtn |-> [disabled |-> FALSE, loading |-> FALSE],
           inputDisabled |-> FALSE,
           copyBtn |-> IF output # <<>> THEN [disabled |-> FALSE] ELSE copy ]

\* setLoadingState(loading): what it leaves in #translateBtn, in
\* inputText.disabled and in #copyBtn, for the value of #outputText
setLoadingState(loading, output, copy) ==
    IF loading
    THEN [ translateBtn |-> [disabled |-> TRUE, loading |-> TRUE],
           inputDisabled |-> TRUE,
           copyBtn |-> [disabled |-> TRUE] ]
    ELSE [ translateBtn |-> [disabled |-> FALSE, loading |-> FALSE],
           inputDisabled |-> FALSE,
           copyBtn |-> IF output # <<>> THEN [disabled |-> FALSE] ELSE copy ]

\* faulty variant of SameLanguages: the comparison never holds
SameLanguagesNever(source, target) == FALSE

\* sourceLanguage.value === targetLanguage.value && sourceLanguage.value !== 'auto'
SameLanguages(source, target) == source = target /\ source # "auto"

\* performTranslation(), up to the await of fetch.  With no option of
\* #targetLanguage selected (value "") the read of
\* targetLanguage.options[-1].text throws inside the try block: the catch
\* and finally clauses run in the same step and no request is made.
performTranslation ==
    /\ LET text == Trim(inputText.value)
           on == setLoadingState(TRUE, outputText, copyBtn)
           off == setLoadingState(FALSE, outputText, on.copyBtn)
       IN  IF text = <<>>
           THEN /\ notified' = Notify("error", "Please enter text to translate")
                /\ UNCHANGED textVars
           ELSE IF SameLanguages(sourceLanguage, targetLanguage)
           THEN /\ notified' =
                     Notify("error", "Source and target languages cannot be the same")
                /\ UNCHANGED textVars
           ELSE IF targetLanguage = ""
           THEN /\ notified' = Notify("error", "Translation failed. Please try again.")
                /\ translateBtn' = off.translateBtn
                /\ inputText' = [inputText EXCEPT !.disabled = off.inputDisabled]
                /\ copyBtn' = off.copyBtn
                /\ UNCHANGED << outputText, sourceLanguage, targetLanguage, fetches >>
           ELSE /\ Len(fetches) < MaxFetches
                /\ notified' = Silent
                /\ translateBtn' = on.translateBtn
                /\ inputText' = [inputText EXCEPT !.disabled = on.inputDisabled]
                /\ copyBtn' = on.copyBtn
                /\ fetches' = Append(fetches, [state |-> "pending", text |-> text])
                /\ UNCHANGED << outputText, sourceLanguage, targetLanguage >>
    /\ UNCHANGED fileVars

\* the click listener of #translateBtn; a disabled button gets no click
translateBtnClick ==
    /\ ~translateBtn.disabled
    /\ performTranslation

\* the keydown listener, Ctrl/Cmd + Enter
keydownCtrlEnter ==
    IF ~translateBtn.disabled
    THEN performTranslation
    ELSE /\ notified' = Silent
         /\ UNCHANGED << textVars, fileVars >>

\* the keydown listener, Escape
keydownEscape ==
    /\ inputText' = [inputText EXCEPT !.value = <<>>]
    /\ outputText' = <<>>
    /\ copyBtn' = [disabled |-> TRUE]
    /\ notified' = Silent
    /\ UNCHANGED << sourceLanguage, targetLanguage, translateBtn, fetches >>
    /\ UNCHANGED fileVars

\* the user edits #inputText, which a disabled textarea does not allow
inputTextInput(value) ==
    /\ ~inputText.disabled
    /\ inputText' = [inputText EXCEPT !.value = value]
    /\ notified' = Silent
    /\ UNCHANGED << outputText, sourceLanguage, targetLanguage, translateBtn,
                    copyBtn, fetches >>
    /\ UNCHANGED fileVars

\* the user picks an option of #sourceLanguage or of #targetLanguage
languageChange(source, target) ==
    /\ sourceLanguage' = source
    /\ targetLanguage' = target
    /\ notified' = Silent
    /\ UNCHANGED << inputText, outputText, translateBtn, copyBtn, fetches >>
    /\ UNCHANGED fileVars

\* the click listener of #switchLanguages.  Assigning to the value of a
\* select a string that none of its options has leaves no option selected
\* (value ""); whether #targetLanguage has the option "auto" is decided by
\* the markup, so both outcomes are possible.
switchLanguagesClick ==
    /\ sourceLanguage' = targetLanguage
    /\ targetLanguage' \in
         IF sourceLanguage = "auto" THEN {"auto", ""} ELSE {sourceLanguage}
    /\ inputText' = [inputText EXCEPT !.value = outputText]
    /\ outputText' = inputText.value
    /\ notified' = Silent
    /\ UNCHANGED << translateBtn, copyBtn, fetches >>
    /\ UNCHANGED fileVars

\* the fetch calls that have not settled
Pending == { k \in DOMAIN fetches : fetches[k].state = "pending" }

\* what the translate endpoint can answer: response.ok, whether
\* response.json() is fulfilled, whether data.error is truthy, and
\* data.translated_text (a text, the empty string, or absent)
TextResponses ==
    { [ok |-> TRUE, json |-> TRUE, error |-> FALSE, translated_text |-> t] :
        t \in { <<"h", "o", "l", "a">>, <<>>, Undefined } }
    \cup { [ok |-> TRUE, json |-> TRUE, error |-> TRUE],
           [ok |-> TRUE, json |-> FALSE],
           [ok |-> FALSE] }

\* performTranslation resumes with the response of fetch k
fetchFulfilled(k, response) ==
    /\ k \in Pending
    /\ fetches' = [fetches EXCEPT ![k] = [state |-> "done"]]
    /\ IF response.ok /\ response.json /\ ~response.error
       THEN LET off == setLoadingState(FALSE, response.translated_text,
                                       [disabled |-> FALSE])
            IN  /\ outputText' = response.translated_text
                /\ notified' =
                     Notify("success", "Translation completed successfully!")
                /\ translateBtn' = off.translateBtn
                /\ inputText' = [inputText EXCEPT !.disabled = off.inputDisabled]
                /\ copyBtn' = off.copyBtn
       ELSE LET off == setLoadingState(FALSE, outputText, copyBtn)
            IN  /\ notified' =
                     Notify("error", "Translation failed. Please try again.")
                /\ translateBtn' = off.translateBtn
                /\ inputText' = [inputText EXCEPT !.disabled = off.inputDisabled]
                /\ copyBtn' = off.copyBtn
                /\ UNCHANGED outputText
    /\ UNCHANGED << sourceLanguage, targetLanguage >>
    /\ UNCHANGED fileVars

\* performTranslation resumes with the rejection of fetch k (network failure)
fetchRejected(k) ==
    /\ k \in Pending
    /\ fetches' = [fetches EXCEPT ![k] = [state |-> "done"]]
    /\ LET off == setLoadingState(FALSE, outputText, copyBtn)
       IN  /\ notified' = Notify("error", "Translation failed. Please try again.")
           /\ translateBtn' = off.translateBtn
           /\ inputText' = [inputText EXCEPT !.disabled = off.inputDisabled]
           /\ copyBtn' = off.copyBtn
    /\ UNCHANGED << outputText, sourceLanguage, targetLanguage >>
    /\ UNCHANGED fileVars

\* the text translator alone, from the state in which the script is loaded;
\* the markup decides whether #copyBtn starts disabled
InitText ==
    /\ originalUploadedFile = Null
    /\ currentFileInfo = Null
    /\ currentFileData = Null
    /\ selectedPages = <<>>
    /\ translatedPdfDownloadUrl = <<>>
    /\ fileInputFile = Null
    /\ pageInput = <<>>
    /\ pageIcons = 0
    /\ controlsBound = FALSE
    /\ translateLoading = FALSE
    /\ outputShown = FALSE
    /\ notified = Silent
    /\ uploadXhrs = <<>>
    /\ translateXhrs = <<>>
    /\ showTimers = <<>>
    /\ linkClicked = <<>>
    /\ timeEstimate = <<>>
    /\ uploadProgress = 0
    /\ \E copyDisabled \in BOOLEAN : TextIdle(copyDisabled)

NextText ==
    \/ translateBtnClick
    \/ keydownCtrlEnter
    \/ keydownEscape
    \/ \E value \in TextInputs : inputTextInput(value)
    \/ \E source \in SourceLanguages, target \in TargetLanguages :
         languageChange(source, target)
    \/ switchLanguagesClick
    \/ \E k \in DOMAIN fetches :
         \E response \in TextResponses : fetchFulfilled(k, response)
    \/ \E k \in DOMAIN fetches : fetchRejected(k)

SpecText == InitText /\ [][NextText]_vars

(***************************************************************************)
(* Claims about the Selected Page Set.                                      *)
(***************************************************************************)
StrictlyAscending(seq) == \A i \in 1..(Len(seq) - 1) : seq[i] < seq[i + 1]

\* the elements of a finite set of integers in ascending order
RECURSIVE AscendingSeqOf(_)
AscendingSeqOf(S) ==
    IF S = {} THEN <<>>
    ELSE LET least == CHOOSE x \in S : \A y \in S : x <= y
         IN  <<least>> \o AscendingSeqOf(S \ {least})

\* C1: whenever a file is shown, the Selected Page Set is a strictly
\* ascending sequence of distinct integers, each within [1, page count] of
\* that file, after every sequence of uploads shown, toggles, selectAll,
\* deselectAll and parses of the page field.
C1_SelectionCanonical ==
    /\ StrictlyAscending(selectedPages)
    /\ currentFileData # Null =>
         \A i \in DOMAIN selectedPages :
            selectedPages[i] \in 1..TotalPages(currentFileData)

\* C1 witness: both pages of the document are selected after the page field
\* was parsed and pages were toggled.
C1_Witness ==
    /\ currentFileData # Null
    /\ currentFileData.file_info.pages = 2
    /\ pageInput = <<"2">>
    /\ selectedPages = <<1, 2>>

\* a decimal numeral: one or more digits
IsNumeral(s) == s # <<>> /\ \A i \in DOMAIN s : s[i] \in Digits

\* a token that is a single integer, white space around it allowed
IsIntegerToken(token) == IsNumeral(Trim(token))

\* a token start-end: two numerals around one "-", white space allowed
IsRangeToken(token) ==
    LET bounds == Split(Trim(token), "-")
    IN  Len(bounds) = 2 /\ IsNumeral(Trim(bounds[1])) /\ IsNumeral(Trim(bounds[2]))

RangeStart(token) == DecimalValue(Trim(Split(Trim(token), "-")[1]))

RangeEnd(token) == DecimalValue(Trim(Split(Trim(token), "-")[2]))

\* the pages a token contributes by the specification: k for the integer k,
\* start..end for a range with start <= end, nothing for anything else
TokenPages(token) ==
    IF IsIntegerToken(token) THEN {DecimalValue(Trim(token))}
    ELSE IF IsRangeToken(token) /\ RangeStart(token) <= RangeEnd(token)
    THEN RangeStart(token)..RangeEnd(token)
    ELSE {}

\* a token of one of the two forms that contribute pages
Contributes(token) ==
    \/ IsIntegerToken(token)
    \/ IsRangeToken(token) /\ RangeStart(token) <= RangeEnd(token)

TokensOf(text) == LET parts == Split(text, ",") IN {parts[i] : i \in DOMAIN parts}

\* the selection the specification gives the text for a file of n pages
SpecifiedSelection(text, n) ==
    AscendingSeqOf(UNION {TokenPages(token) : token \in TokensOf(text)} \cap 1..n)

\* C2: when every comma-separated token of the text is an integer or a range
\* start-end with start <= end, parsing the text replaces the selection,
\* whatever it was, by the ascending de-duplicated pages the tokens
\* contribute, intersected with [1, n].
C2_ParseReplacesSelection ==
    (\A token \in TokensOf(pageInput) : Contributes(token)) =>
        selectedPages = SpecifiedSelection(pageInput, TotalPages(currentFileData))

\* C2 witness: "1,3,5-8" parsed for a file of 10 pages gives [1,3,5,6,7,8].
C2_Witness ==
    /\ pageInput = <<"1", ",", "3", ",", "5", "-", "8">>
    /\ currentFileData.file_info.pages = 10
    /\ selectedPages = <<1, 3, 5, 6, 7, 8>>

\* C3: a malformed token (not an integer, a range of more than two parts or
\* with a non-numeric bound) and a range with start > end contribute no page
\* and leave the pages of the other tokens as they are: the selection after
\* a parse is what the integer and range tokens alone contribute.
C3_MalformedTokensDropped ==
    [][selectedPages' =
         SpecifiedSelection(pageInput', TotalPages(currentFileData'))]_vars

(***************************************************************************)
(* Claims about uploads and submissions.                                    *)
(***************************************************************************)
\* C4: single-flight: at most one upload request and at most one
\* file-translation request is in flight in every reachable state.
C4_SingleFlight ==
    /\ Cardinality(InFlight(uploadXhrs)) <= 1
    /\ Cardinality(InFlight(translateXhrs)) <= 1

\* C5: in every state in which a translation can be submitted (a file is
\* shown, pages are selected, a payload is available) the retained payload
\* is the file whose upload produced the current File Descriptor.
C5_PayloadIsDescribedFile ==
    (/\ currentFileData # Null
     /\ selectedPages # <<>>
     /\ PayloadOrFallback # Null)
        => PayloadOrFallback.name = currentFileData.file_info.file

\* C6: an upload call with a file whose content type is not in the
\* allow-list starts no transfer and reports the validation error in the
\* same call.
C6_RejectedUploadSendsNothing ==
    [][\A u \in UserUploads :
          (u.file.type \notin allowedTypes /\ handleFileUpload(u.file, u.viaInput))
             => /\ uploadXhrs' = uploadXhrs
                /\ translateXhrs' = translateXhrs
                /\ showTimers' = showTimers
                /\ notified' = Notify("error", "Unsupported file type")]_vars

\* C6 witness: the executable was dropped and rejected; no request exists.
C6_Witness ==
    /\ originalUploadedFile = ExeFile
    /\ notified = Notify("error", "Unsupported file type")
    /\ uploadXhrs = <<>>

\* C7: a submit call while the Selected Page Set is empty starts no transfer,
\* reports one validation error in the same call, and does not put the
\* translate button into its loading state (the button is as it was, and not
\* loading when it was not loading before).
C7_EmptySelectionSendsNothing ==
    [][(translateFileContent /\ selectedPages = <<>>)
          => /\ translateXhrs' = translateXhrs
             /\ uploadXhrs' = uploadXhrs
             /\ Len(notified') = 1
             /\ notified'[1].type = "error"
             /\ translateLoading' = translateLoading]_vars

\* C7 witness: submit was called for a shown file with nothing selected.
C7_Witness ==
    /\ currentFileData # Null
    /\ selectedPages = <<>>
    /\ ~translateLoading
    /\ notified = Notify("error", "Please select at least one page to translate")

\* C8: a submit call for a shown file with pages selected, when no payload
\* is retained and #fileInput holds no file, reports a validation error,
\* sends no request and does not leave the button loading.
C8_MissingPayloadSendsNothing ==
    [][(/\ translateFileContent
        /\ currentFileData # Null
        /\ selectedPages # <<>>
        /\ originalUploadedFile = Null
        /\ fileInputFile = Null)
          => /\ translateXhrs' = translateXhrs
             /\ uploadXhrs' = uploadXhrs
             /\ notified' = Notify("error", "Please upload a file first")
             /\ ~translateLoading']_vars

\* C8 witness: submit found no payload for the file shown.
C8_Witness ==
    /\ currentFileData # Null
    /\ selectedPages # <<>>
    /\ originalUploadedFile = Null
    /\ notified = Notify("error", "Please upload a file first")

\* request i of xhrs gets its terminal callback in this step
Settles(xhrs, i) == i \in InFlight(xhrs) /\ i \notin InFlight(xhrs)'

UploadServerErrors ==
    { Notify("error", "Upload failed: HTTP status"),
      Notify("error", "Upload failed: Invalid response format"),
      Notify("error", "Upload failed: data.error") }

\* the terminal outcomes of an upload, as the step that delivers them
UploadSucceeds(i) ==
    /\ currentFileInfo' = FileInfoOf(uploadXhrs[i].formData.file)
    /\ showTimers' = Append(showTimers, [file_info |-> currentFileInfo'])
    /\ \A k \in DOMAIN notified' : notified'[k].type # "error"

UploadFails(i, messages) ==
    /\ notified' \in messages
    /\ UNCHANGED << currentFileInfo, currentFileData, showTimers >>

\* C9: every accepted upload call gets exactly one terminal outcome out of
\* success, network error, server error and timeout (deadline 300,000 ms,
\* reported as a timeout); no request gets a second outcome and none is sent
\* again: requests are added by upload calls alone.
C9_UploadOneOutcome ==
    /\ [](\A i \in DOMAIN uploadXhrs :
            \/ /\ uploadXhrs[i].state = "sent"
               /\ uploadXhrs[i].callbacks = 0
               /\ uploadXhrs[i].timeout = 300000
            \/ /\ uploadXhrs[i].state = "done"
               /\ uploadXhrs[i].callbacks = 1)
    /\ [][/\ \A i \in DOMAIN uploadXhrs :
               Settles(uploadXhrs, i) =>
                  /\ \/ UploadSucceeds(i)
                     \/ UploadFails(i, {Notify("error", "Upload failed: Network error")})
                     \/ UploadFails(i, UploadServerErrors)
                     \/ UploadFails(i, {Notify("error", "Upload failed: Timeout")})
                  /\ uploadOntimeout(i) =>
                        UploadFails(i, {Notify("error", "Upload failed: Timeout")})
                  /\ Len(uploadXhrs') = Len(uploadXhrs)
          /\ Len(uploadXhrs') # Len(uploadXhrs) =>
               \E u \in UserUploads : handleFileUpload(u.file, u.viaInput)]_vars

\* C9 witness: an upload has timed out.
C9_Witness ==
    /\ uploadXhrs # <<>>
    /\ uploadXhrs[1].state = "done"
    /\ notified = Notify("error", "Upload failed: Timeout")

\* C10: the timeout of a file-translation request (300,000 ms) fails the
\* job once: for each submission exactly one of the load, error and timeout
\* callbacks runs, once, and the timeout one reports the timeout and ends
\* the loading state.
C10_TranslateTimeoutOnce ==
    /\ [](\A j \in DOMAIN translateXhrs :
            \/ /\ translateXhrs[j].state = "sent"
               /\ translateXhrs[j].callbacks = 0
               /\ translateXhrs[j].timeout = 300000
            \/ /\ translateXhrs[j].state = "done"
               /\ translateXhrs[j].callbacks = 1)
    /\ [][\A j \in DOMAIN translateXhrs :
            /\ translateOntimeout(j) =>
                 /\ Settles(translateXhrs, j)
                 /\ notified' = Notify("error", "Translation failed: Timeout")
                 /\ ~translateLoading'
                 /\ UNCHANGED << translatedPdfDownloadUrl, outputShown >>
            /\ Settles(translateXhrs, j) =>
                 /\ Len(notified') = 1
                 /\ Len(translateXhrs') = Len(translateXhrs)]_vars

\* C10 witness: a file translation has timed out.
C10_Witness ==
    /\ translateXhrs # <<>>
    /\ translateXhrs[1].state = "done"
    /\ notified = Notify("error", "Translation failed: Timeout")

(***************************************************************************)
(* Claims about the Translation Job.                                        *)
(***************************************************************************)
\* a response with HTTP status 200 whose JSON body has a truthy success flag
\* and no download_url
SuccessWithoutUrl(response) ==
    /\ response.status = 200
    /\ response.body = "object"
    /\ response.success
    /\ response.download_url = Undefined

\* C11: a translate response with status 200 and a truthy success flag but
\* no download_url is treated as a server error: the step that handles it
\* records no download reference, shows no success output and reports an
\* error.
C11_SuccessWithoutUrlFails ==
    [][\A j \in DOMAIN translateXhrs :
         \A response \in TranslateResponses(j) :
            (SuccessWithoutUrl(response) /\ translateOnload(j, response))
               => /\ translatedPdfDownloadUrl' = translatedPdfDownloadUrl
                  /\ outputShown' = outputShown
                  /\ Len(notified') = 1
                  /\ notified'[1].type = "error"]_vars

\* the artifact a download reference names: its last part; none when no
\* reference is recorded
ResultOf(url) == IF Falsy(url) THEN <<>> ELSE <<url[Len(url)]>>

\* the Translation Job has succeeded: its result is shown with a download
\* reference and the button has left the loading state
JobSucceeded ==
    outputShown /\ ~translateLoading /\ ~Falsy(translatedPdfDownloadUrl)

TranslationFailures ==
    { Notify("error", "Translation failed: HTTP status"),
      Notify("error", "Translation failed: Invalid response format"),
      Notify("error", "Translation failed: Empty response from server"),
      Notify("error", "Translation failed: data.error"),
      Notify("error", "Translation failed: Network error"),
      Notify("error", "Translation failed: Timeout") }

\* C12: the Translation Job moves only idle -> submitting -> succeeded or
\* failed.  Once it has succeeded, only a session reset or a new submission
\* changes it: every other step keeps the result shown, keeps the artifact
\* the download reference names, and reports no translation failure.
C12_JobStateForwardOnly ==
    [][JobSucceeded =>
         \/ hideFileTranslation
         \/ translateFileContent
         \/ /\ outputShown'
            /\ ResultOf(translatedPdfDownloadUrl') = ResultOf(translatedPdfDownloadUrl)
            /\ notified' \notin TranslationFailures]_vars

(***************************************************************************)
(* Claims about the session.                                                *)
(***************************************************************************)
\* the module-level session variables: the File Descriptor, the page
\* model, the Selected Page Set, the download reference, the retained file
SessionState ==
    << currentFileInfo, currentFileData, selectedPages,
       translatedPdfDownloadUrl, originalUploadedFile >>

\* their values when the script is loaded
InitialSession == << Null, Null, <<>>, <<>>, Null >>

\* C13: from whatever state hideFileTranslation (reset) is called, it
\* clears the File Descriptor, the page model, the Selected Page Set, the
\* download reference and the retained file payload: immediately after it
\* the session variables have their initial values and no translation
\* output is shown.
C13_ResetClearsSession ==
    [][hideFileTranslation =>
         SessionState' = InitialSession /\ ~outputShown']_vars

\* C13 witness: the session was reset after a file had been shown and a
\* translation of it had been submitted.
C13_Witness ==
    /\ controlsBound
    /\ translateXhrs # <<>>
    /\ SessionState = InitialSession
    /\ ~outputShown

\* a download can be started: the button is displayed and a download
\* reference is recorded
DownloadUsable == outputShown /\ ~Falsy(translatedPdfDownloadUrl)

\* C14: a Download Reference is usable only while the Translation Job that
\* produced it is the current one: a download step fetches the artifact of
\* the latest submission only, and the step that shows the File Descriptor
\* of a new upload leaves no usable reference of an earlier job.
C14_DownloadOnlyCurrentJob ==
    [][/\ (downloadTranslatedFile /\ linkClicked' # <<>>) =>
             ResultOf(linkClicked') = <<JobTag(Len(translateXhrs))>>
       /\ showFileTranslationResults => ~DownloadUsable']_vars

\* C15: when a successful upload creates a new File Descriptor the
\* Selected Page Set is reset to empty: in no reachable state is the File
\* Descriptor that of a new file while the selection holds pages chosen in
\* the page model of the previous file.
C15_NewDescriptorEmptySelection ==
    (/\ currentFileInfo # Null
     /\ currentFileData # Null
     /\ currentFileInfo # currentFileData.file_info)
        => selectedPages = <<>>

\* the elements of a sequence
Range(seq) == {seq[i] : i \in DOMAIN seq}

\* C16: the translate request carries the pages field if and only if the
\* submitted selection is a strict subset of all pages [1, page_count] of
\* the file shown; with all pages selected the field is omitted, and when
\* present its value is the selection in ascending order joined by commas.
C16_PagesFieldIffStrictSubset ==
    [][Len(translateXhrs') = Len(translateXhrs) + 1 =>
         LET sent == translateXhrs'[Len(translateXhrs')].formData
             allPages == 1..TotalPages(currentFileData)
         IN  /\ sent.pages # <<>> <=> Range(selectedPages) # allPages
             /\ sent.pages # <<>> =>
                  sent.pages = <<Join(AscendingSeqOf(Range(selectedPages)))>>]_vars

(***************************************************************************)
(* Claims about the operations of the Page Selector.                        *)
(***************************************************************************)
\* the pages of the file shown
PagesShown == 1..TotalPages(currentFileData)

\* C17: toggle is its own inverse: after togglePageSelection(p) for an
\* in-range page p, from every selection, toggling p once more gives back
\* the prior selection exactly (same elements, same ascending order).
C17_ToggleTwiceRestores ==
    [][\A p \in PagesShown :
         togglePageSelection(p) =>
            /\ selectedPages' # selectedPages
            /\ Toggled(selectedPages', p) = selectedPages]_vars

\* C17 witness: pages 2 and 5 of the ten-page document are selected, which
\* only toggles produce.
C17_Witness ==
    /\ currentFileData # Null
    /\ TotalPages(currentFileData) = 10
    /\ selectedPages = <<2, 5>>

C19_SelectAllDeselectAll ==
    [][/\ selectAllPages => selectedPages' = AscendingSeqOf(PagesShown)
       /\ deselectAllPages => selectedPages' = <<>>]_vars

\* C19 witness: all ten pages of the document are selected.
C19_Witness ==
    /\ currentFileData # Null
    /\ TotalPages(currentFileData) = 10
    /\ selectedPages = <<1, 2, 3, 4, 5, 6, 7, 8, 9, 10>>

\* C20: parsing an empty or whitespace-only text leaves the session as
\* deselectAllPages does: the selection is [], whatever it was before, no
\* notification is raised and nothing else of the session changes.
C20_BlankTextDeselectsAll ==
    [][Trim(pageInput') = <<>> =>
         /\ selectedPages' = <<>>
         /\ notified' = Silent
         /\ UNCHANGED << originalUploadedFile, currentFileInfo,
                         currentFileData, translatedPdfDownloadUrl,
                         pageIcons, translateLoading, outputShown,
                         uploadXhrs, translateXhrs, showTimers >>]_vars

\* C20 witness: the field holds white space only and nothing is selected.
C20_Witness ==
    /\ pageInput = <<" ", " ">>
    /\ controlsBound
    /\ selectedPages = <<>>

(***************************************************************************)
(* Claims about the time estimate.                                          *)
(***************************************************************************)
\* ceil(4.5 * k)
CeilSeconds(k) == (9 * k + 1) \div 2

\* the estimate the specification gives k pages: unknown for none, "Ts" for
\* T = ceil(4.5 k) < 60, and "Mm Ss" with M = T div 60, S = T mod 60
SpecifiedEstimate(k) ==
    IF k = 0 THEN <<"-", "-">>
    ELSE IF CeilSeconds(k) < 60 THEN NumberToString(CeilSeconds(k)) \o <<"s">>
    ELSE NumberToString(CeilSeconds(k) \div 60) \o <<"m", " ">>
           \o NumberToString(CeilSeconds(k) % 60) \o <<"s">>

\* C21: the estimate shown for a selection of k pages at 4.5 s per page is
\* the unknown sentinel for k = 0 and otherwise, with T = ceil(4.5 k), "Ts"
\* when T < 60 and "Mm Ss" with M = T div 60 and S = T mod 60 in 0..59
\* (never "Mm 60s"); 10 pages give "45s".
C21_EstimateDuration ==
    /\ timeEstimate = SpecifiedEstimate(Len(selectedPages))
    /\ Len(timeEstimate) >= 4 =>
         SubSeq(timeEstimate, Len(timeEstimate) - 3, Len(timeEstimate))
            # <<" ", "6", "0", "s">>

\* C21 witness: 27 pages are selected and the estimate is "2m 2s".
C21_Witness ==
    /\ Len(selectedPages) = 27
    /\ timeEstimate = <<"2", "m", " ", "2", "s">>

(***************************************************************************)
(* Claims about the outcomes of uploads and translations.                   *)
(***************************************************************************)
\* upload i reports progress or gets its terminal outcome in this step
UploadReports(i) ==
    \/ \E loaded \in 0..UploadTotal : uploadOnprogress(i, loaded, TRUE)
    \/ Settles(uploadXhrs, i)

\* C22: during one upload the progress value shown to the user stays within
\* 0..100 percent and never decreases: every progress event and the
\* terminal outcome of an upload leave a value that is at least the value
\* of the bytes this upload had reported before.
C22_ProgressMonotonic ==
    [][\A i \in DOMAIN uploadXhrs :
         UploadReports(i) =>
            /\ uploadProgress' \in 0..100
            /\ uploadProgress' >=
                 PercentComplete(uploadXhrs[i].loaded, UploadTotal)]_vars

\* the page model of an uploaded file
PageModelOf(file) == [file_info |-> FileInfoOf(file)]

\* C23: an upload response with success = true that carries an
\* extraction_error ends as a successful upload: the warning is shown, the
\* File Descriptor is created and the page selection of the file is
\* eventually shown, all as for a success without a warning.
C23_WarningStillSucceeds ==
    /\ [][\A i \in DOMAIN uploadXhrs :
            \A response \in UploadResponses :
               (/\ response.status = 200 /\ response.json /\ response.success
                /\ uploadOnload(i, response))
                  => /\ currentFileInfo' = FileInfoOf(uploadXhrs[i].formData.file)
                     /\ showTimers' =
                          Append(showTimers, PageModelOf(uploadXhrs[i].formData.file))
                     /\ Settles(uploadXhrs, i)
                     /\ notified' =
                          IF response.extraction_error
                          THEN Notify("warning", "Warning: extraction_error")
                          ELSE Silent
                     /\ UNCHANGED << originalUploadedFile, currentFileData,
                                     selectedPages, translatedPdfDownloadUrl,
                                     translateXhrs >>]_vars
    /\ \A file \in {DocFile, ImageFile} :
          (PageModelOf(file) \in Range(showTimers))
             ~> (/\ currentFileData = PageModelOf(file)
                 /\ pageIcons = TotalPages(PageModelOf(file))
                 /\ selectedPages = <<>>)

\* C23 witness: the warning of an upload is shown and its page selection
\* is about to be shown.
C23_Witness ==
    /\ notified = Notify("warning", "Warning: extraction_error")
    /\ showTimers # <<>>
    /\ currentFileInfo = showTimers[Len(showTimers)].file_info

(***************************************************************************)
(* Claims about the download.                                               *)
(***************************************************************************)
\* the URL has an http:// or https:// scheme
HasHttpScheme(url) == url # <<>> /\ url[1] \in {"http://", "https://"}

\* C24: a download_url without an http:// or https:// scheme is prefixed
\* with the base origin before use and one with a scheme is used unchanged;
\* the normalisation is idempotent, so a repeated download of the same
\* result uses the same URL and never prefixes the origin a second time.
C24_NormalisationIdempotent ==
    [][(downloadTranslatedFile /\ ~Falsy(translatedPdfDownloadUrl)) =>
         /\ linkClicked' =
              IF HasHttpScheme(translatedPdfDownloadUrl)
              THEN translatedPdfDownloadUrl
              ELSE <<"http://", "127.0.0.1:8000">> \o translatedPdfDownloadUrl
         /\ WithProtocol(linkClicked') = linkClicked'
         /\ linkClicked # <<>> => linkClicked' = linkClicked]_vars

\* C24 witness: the relative download_url was downloaded with the origin
\* prefixed once.
C24_Witness ==
    /\ linkClicked = <<"http://", "127.0.0.1:8000", "/media/", "job1">>
    /\ translatedPdfDownloadUrl = linkClicked
    /\ notified = Notify("success", "Download started!")

(***************************************************************************)
(* Claims about failures.                                                   *)
(***************************************************************************)
\* upload i fails in this step: network error, timeout, or a response that
\* is not a 200 with a JSON object whose success flag is set
UploadFailureStep(i) ==
    \/ uploadOnerror(i)
    \/ uploadOntimeout(i)
    \/ \E response \in UploadResponses :
         /\ ~(response.status = 200 /\ response.json /\ response.success)
         /\ uploadOnload(i, response)

\* file translation j fails in this step
TranslateFailureStep(j) ==
    \/ translateOnerror(j)
    \/ translateOntimeout(j)
    \/ \E response \in TranslateResponses(j) :
         /\ ~(/\ response.status = 200
              /\ response.body = "object"
              /\ response.success)
         /\ translateOnload(j, response)

\* exactly one error message is shown, the failed request is over, and no
\* request is sent
OneErrorNoRetry ==
    /\ Len(notified') = 1
    /\ notified'[1].type = "error"
    /\ Len(uploadXhrs') = Len(uploadXhrs)
    /\ Len(translateXhrs') = Len(translateXhrs)
    /\ InFlight(uploadXhrs') \subseteq InFlight(uploadXhrs)
    /\ InFlight(translateXhrs') \subseteq InFlight(translateXhrs)

\* C25: every failed upload and every failed file translation (network
\* error, non-200 status, malformed JSON, server-reported error, timeout)
\* shows exactly one error message and is not retried: the failing step
\* ends the request and sends none, and requests are sent only by the
\* user's upload and translate actions.
C25_OneErrorNoRetry ==
    [][/\ \A i \in DOMAIN uploadXhrs :
            UploadFailureStep(i) => i \notin InFlight(uploadXhrs') /\ OneErrorNoRetry
       /\ \A j \in DOMAIN translateXhrs :
            TranslateFailureStep(j) =>
               j \notin InFlight(translateXhrs') /\ OneErrorNoRetry
       /\ Len(uploadXhrs') > Len(uploadXhrs) =>
            \E u \in UserUploads : handleFileUpload(u.file, u.viaInput)
       /\ Len(translateXhrs') > Len(translateXhrs) => translateFileContent]_vars

\* C25 witness: a file translation failed on a malformed response and no
\* request is in flight.
C25_Witness ==
    /\ notified = Notify("error", "Translation failed: Invalid response format")
    /\ translateXhrs # <<>>
    /\ InFlight(translateXhrs) = {}
    /\ InFlight(uploadXhrs) = {}

\* the number of pages named by the pages field of a request
SubmittedCount(formData) == Len(Split(formData.pages[1], ","))

\* C26: on a successful translation the reported page count is the
\* response's translated_pages when present and otherwise the size of the
\* selection submitted with that request, also when the selection was
\* changed while the request was in flight (stated for the requests that
\* carry their selection in the pages field).
C26_ReportsSubmittedSelection ==
    [][\A j \in DOMAIN translateXhrs :
         \A response \in TranslateResponses(j) :
            (/\ response.status = 200
             /\ response.body = "object"
             /\ response.success
             /\ translateXhrs[j].formData.pages # <<>>
             /\ translateOnload(j, response))
               => /\ Len(notified') = 1
                  /\ notified'[1].pages =
                       IF response.translated_pages # 0
                       THEN response.translated_pages
                       ELSE SubmittedCount(translateXhrs[j].formData)]_vars

\* C27: after reset the session stays in its initial empty state until the
\* user starts a new upload: the response of a request that was in flight
\* at the reset does not repopulate the File Descriptor, the page model,
\* the selection or the download reference.  The retained file is null
\* exactly from a reset (or the start) to the next upload call, so in every
\* state with no retained file the session variables have their initial
\* values.
C27_ResetStaysInitial ==
    originalUploadedFile = Null => SessionState = InitialSession

\* the File Descriptor, the page model, the Selected Page Set and the
\* download reference
DescriptorModelSelectionDownload ==
    << currentFileInfo, currentFileData, selectedPages, translatedPdfDownloadUrl >>

\* C28: an upload that does not succeed (rejected by the allow-list,
\* network error, server error, timeout) leaves the File Descriptor, the
\* page model, the Selected Page Set and the download reference as they
\* were: neither the upload call, rejected or accepted, nor the failing
\* terminal step of its request changes any of them.
C28_FailedUploadKeepsSession ==
    [][/\ \A u \in UserUploads :
            handleFileUpload(u.file, u.viaInput)
               => UNCHANGED DescriptorModelSelectionDownload
       /\ \A i \in DOMAIN uploadXhrs :
            UploadFailureStep(i) => UNCHANGED DescriptorModelSelectionDownload]_vars

\* C28 witness: an upload failed on a network error in a session that has
\* a file shown, pages selected and a translation to download.
C28_Witness ==
    /\ notified = Notify("error", "Upload failed: Network error")
    /\ currentFileInfo # Null
    /\ currentFileData # Null
    /\ selectedPages # <<>>
    /\ translatedPdfDownloadUrl # <<>>
    /\ translatedPdfDownloadUrl # Undefined

\* C29: the retained file payload is replaced by the new file at the upload
\* call, before the allow-list check and whatever the outcome: every upload
\* call, rejected ones included, stores its file, and no terminal step of
\* an upload request changes the retained file, so after a rejected or
\* failed upload it is that file and not the file of the File Descriptor.
C29_PayloadReplacedAtCall ==
    [][/\ \A u \in UserUploads :
            handleFileUpload(u.file, u.viaInput) => originalUploadedFile' = u.file
       /\ \A i \in DOMAIN uploadXhrs :
            Settles(uploadXhrs, i) => UNCHANGED originalUploadedFile]_vars

\* C29 witness: a file was rejected by the allow-list while another file is
\* shown; the retained payload is the rejected file.
C29_Witness ==
    /\ notified = Notify("error", "Unsupported file type")
    /\ originalUploadedFile = ExeFile
    /\ currentFileInfo # Null
    /\ currentFileData # Null
    /\ currentFileInfo.file # ExeFile.name

\* C30: whenever a translation can be submitted (the page model is
\* present), the page count that decides whether the pages field is sent
\* (currentFileInfo.pages) equals the page count that bounds the selection
\* (currentFileData.file_info.pages), in every interleaving, the 500 ms
\* between an upload response and the display of its results included.
C30_PageCountsAgree ==
    currentFileData # Null =>
       /\ currentFileInfo # Null
       /\ currentFileInfo.pages = currentFileData.file_info.pages

(***************************************************************************)
(* Claims about concurrent translations, the page count, the loading state  *)
(* and the download.                                                        *)
(***************************************************************************)
\* C31: when several translation requests have been submitted and all have
\* completed, the download reference is the one of the most recently
\* submitted request, whatever the order of the responses: when the
\* reference already names the artifact of the latest submission and the
\* last request still in flight, an earlier one, succeeds with its own
\* download_url, the reference still names the artifact of the latest
\* submission.
C31_LastSubmittedWins ==
    [][\A j \in DOMAIN translateXhrs :
         \A response \in TranslateResponses(j) :
            (/\ response.status = 200
             /\ response.body = "object"
             /\ response.success
             /\ response.download_url # Undefined
             /\ ResultOf(translatedPdfDownloadUrl) = <<JobTag(Len(translateXhrs))>>
             /\ translateOnload(j, response)
             /\ InFlight(translateXhrs') = {})
               => ResultOf(translatedPdfDownloadUrl') =
                     <<JobTag(Len(translateXhrs))>>]_vars

\* the effective page count as specified: the reported count when it is at
\* least 1, and 1 when it is 0 or absent
EffectivePages(fileInfo) == IF fileInfo.pages >= 1 THEN fileInfo.pages ELSE 1

\* C32: the effective page count of an uploaded file is file_info.pages
\* when that is at least 1 and 1 when it is 0 or absent: the page model
\* built for a response has that many pages, it bounds the typed selection,
\* the page model has at least one page whenever the page controls are
\* usable, and selectAll never yields an empty selection.
C32_AtLeastOnePage ==
    /\ [](controlsBound => pageIcons >= 1)
    /\ [](currentFileData # Null =>
            /\ pageIcons = EffectivePages(currentFileData.file_info)
            /\ MaxPagesOf(currentFileData) = EffectivePages(currentFileData.file_info))
    /\ [][/\ showFileTranslationResults =>
               pageIcons' = EffectivePages(Head(showTimers).file_info)
          /\ selectAllPages => selectedPages' # <<>>]_vars

\* C32 witness: a file whose response reports no page count is shown and
\* its one page is selected.
C32_Witness ==
    /\ currentFileData # Null
    /\ currentFileData.file_info.pages = 0
    /\ pageIcons = 1
    /\ selectedPages = <<1>>

\* C33: every file-translation submission that enters the loading state
\* leaves it: each terminal outcome and the missing-payload failure remove
\* the loading class, so the translate button is never left loading once
\* no translation request is in flight.
C33_NeverLeftLoading ==
    InFlight(translateXhrs) = {} => ~translateLoading

C34_TextSingleFlight ==
    /\ [](/\ Cardinality(Pending) <= 1
          /\ Pending # {} => translateBtn.disabled)
    /\ [][(Pending # {} /\ keydownCtrlEnter) => UNCHANGED textVars]_vars

\* C34 witness: after a first request has settled a second one is in
\* flight and the button is disabled.
C34_Witness ==
    /\ Len(fetches) = 2
    /\ fetches[1].state = "done"
    /\ Pending = {2}
    /\ translateBtn.disabled

\* request k gets its outcome in this step
TextOutcome(k) ==
    \/ fetchRejected(k)
    \/ \E response \in TextResponses : fetchFulfilled(k, response)

\* C35: every performTranslation call that enters the loading state leaves
\* it on every outcome (success, HTTP error, server-reported error, network
\* failure): the translate button and the input are enabled again, and the
\* copy button is enabled afterwards only if the output is non-empty.
C35_TextLoadingLeaves ==
    [][\A k \in DOMAIN fetches :
         TextOutcome(k) =>
            /\ ~translateBtn'.disabled
            /\ ~translateBtn'.loading
            /\ ~inputText'.disabled
            /\ ~copyBtn'.disabled => outputText' # <<>>]_vars

\* the text is empty after trimming
Blank(text) == \A i \in DOMAIN text : text[i] \in WhiteSpace

\* C36: performTranslation with an input text that is empty after trimming,
\* or with a source language equal to the target language and not 'auto',
\* sends no request, reports an error, never enters the loading state and
\* leaves the output unchanged.
C36_TextValidation ==
    [][(/\ \/ Blank(inputText.value)
           \/ sourceLanguage = targetLanguage /\ sourceLanguage # "auto"
        /\ performTranslation)
          => /\ UNCHANGED << fetches, translateBtn, inputText, copyBtn, outputText >>
             /\ Len(notified') = 1
             /\ notified'[1].type = "error"]_vars

\* C36 witness: a translation of a non-blank text from a language to the
\* same language was refused.
C36_Witness ==
    /\ notified = Notify("error", "Source and target languages cannot be the same")
    /\ ~Blank(inputText.value)
    /\ sourceLanguage = targetLanguage
    /\ ~translateBtn.loading

====
